---------------------------- MODULE Spec2Model ----------------------------
(***************************************************************************)
(* A model of atlas-sync's replicated directory-tree engine: the tree CRDT *)
(* (crdt.rs), the replica index (crdt_index.rs), the index task            *)
(* (coordinator.rs), the gossip receive path (p2p_network.rs) and the      *)
(* event translator (watcher.rs).                                          *)
(*                                                                         *)
(* A JsonNode tree is kept flattened: a function from the paths of its     *)
(* nodes (sequences of map keys, <<>> for the root) to the node found      *)
(* there.  A path is in the domain exactly when every proper prefix of it  *)
(* is a Map node, so two trees are equal as JsonNode values exactly when   *)
(* the two functions are equal.                                            *)
(*                                                                         *)
(* crdt.rs names the installing mutation Insert, crdt_index.rs and the     *)
(* other callers name it New; the model uses "New" for both.               *)
(***************************************************************************)
EXTENDS Integers, Sequences, FiniteSets, TLC

(***************************************************************************)
(* Bounds of the model.                                                    *)
(***************************************************************************)
MaxIssued == 6       \* timestamps issued by all the indexes together
MaxPool == 2         \* operations in the pool of the exchange specification
MaxCounter == 3      \* the greatest counter of an id in that pool
MaxEvents == 2       \* filesystem events the translators handle
MaxDup == 1          \* broadcast messages the transport may deliver again
MaxMaint == 1        \* compactions and reloads of the indexes together
MaxMaintIssued == 4  \* timestamps issued in the runs that compact and reload
MaxWakeups == 2      \* periodic wakeups of a handshake loop
MaxForeign == 1      \* messages published on the topic by peers outside the model
MaxBoots == 3        \* starts of a peer's process
MaxUser == 2         \* changes users make to the watched directories
MaxFetch == 1        \* file responses the peers handle
MaxDepth == 2        \* segments of a cursor in the runs that compare two orders

Replicas == {"A", "B"}

\* Ord on the replica_id string of a LamportTimestamp
RidRank(r) == IF r = "A" THEN 1 ELSE 2

(***************************************************************************)
(* LamportTimestamp: derive(PartialOrd, Ord) compares counter, then        *)
(* replica_id.                                                             *)
(***************************************************************************)
LamportTimestamp(c, r) == [counter |-> c, replica_id |-> r]

TsLess(a, b) ==
    \/ a.counter < b.counter
    \/ a.counter = b.counter /\ RidRank(a.replica_id) < RidRank(b.replica_id)

(***************************************************************************)
(* JsonNode                                                                *)
(***************************************************************************)
NoMeta == "-"
MapNode == [tag |-> "Map", meta |-> NoMeta]
Tombstone == [tag |-> "Tombstone", meta |-> NoMeta]
Entry(m) == [tag |-> "Entry", meta |-> m]

\* JsonNode::new_map() as the root of a tree
new_map == (<<>> :> MapNode)

IsPrefix(p, q) == Len(p) <= Len(q) /\ SubSeq(q, 1, Len(p)) = p

\* MapInsert emptying the Map first: the other children of the parent are lost
MapInsertDropsSiblings(t, p, node) ==
    LET parent == SubSeq(p, 1, Len(p) - 1)
        keep == {q \in DOMAIN t : ~(IsPrefix(parent, q) /\ q # parent)}
    IN  [q \in keep \cup {p} |-> IF q = p THEN node ELSE t[q]]

\* BTreeMap::insert(key, value) on the Map at the parent of path p: the
\* child at p, with everything below it, is replaced by node
MapInsert(t, p, node) ==
    LET keep == {q \in DOMAIN t : ~IsPrefix(p, q)}
    IN  [q \in keep \cup {p} |-> IF q = p THEN node ELSE t[q]]

Mutation(kind, key, value) == [kind |-> kind, key |-> key, value |-> value]

Operation(id, deps, cursor, mutation) ==
    [id |-> id, deps |-> deps, cursor |-> cursor, mutation |-> mutation]

NoOp == Operation(LamportTimestamp(0, "-"), {}, <<>>,
                  Mutation("None", "", Tombstone))

(***************************************************************************)
(* JsonNode::apply, the cursor walk: each segment needs the current node   *)
(* to be a Map and descends into the child, which or_insert creates as an  *)
(* empty Map when absent.  The maps created stay when the walk or the      *)
(* mutation fails later: the walk mutates the tree in place.               *)
(***************************************************************************)
RECURSIVE WalkCursor(_, _, _)
WalkCursor(t, cursor, i) ==
    IF i > Len(cursor) THEN [ok |-> TRUE, tree |-> t]
    ELSE IF t[SubSeq(cursor, 1, i - 1)].tag # "Map"
         THEN [ok |-> FALSE, tree |-> t]
         ELSE LET p == SubSeq(cursor, 1, i)
              IN  WalkCursor(IF p \in DOMAIN t THEN t ELSE MapInsert(t, p, MapNode),
                             cursor, i + 1)

\* ApplyMutation with the Tombstone test of Edit left out
ApplyMutationEditRevives(t, cursor, m) ==
    LET child == Append(cursor, m.key)
    IN  IF t[cursor].tag # "Map" THEN [ok |-> FALSE, tree |-> t]
        ELSE CASE m.kind = "New" ->
                    [ok |-> TRUE, tree |-> MapInsert(t, child, m.value)]
               [] m.kind = "Delete" ->
                    [ok |-> TRUE, tree |-> MapInsert(t, child, Tombstone)]
               [] m.kind = "Edit" ->
                    IF child \in DOMAIN t
                    THEN [ok |-> TRUE, tree |-> MapInsert(t, child, m.value)]
                    ELSE [ok |-> FALSE, tree |-> t]

\* the match on op.mutation of JsonNode::apply, on the tree the walk left
\* and the target node at the cursor
ApplyMutation(t, cursor, m) ==
    LET child == Append(cursor, m.key)
    IN  IF t[cursor].tag # "Map" THEN [ok |-> FALSE, tree |-> t]
        ELSE CASE m.kind = "New" ->
                    [ok |-> TRUE, tree |-> MapInsert(t, child, m.value)]
               [] m.kind = "Delete" ->
                    [ok |-> TRUE, tree |-> MapInsert(t, child, Tombstone)]
               [] m.kind = "Edit" ->
                    IF child \in DOMAIN t /\ t[child].tag # "Tombstone"
                    THEN [ok |-> TRUE, tree |-> MapInsert(t, child, m.value)]
                    ELSE [ok |-> FALSE, tree |-> t]

\* JsonNode::apply(op, applied_ops): the result, the tree and the applied set
JsonApply(root, op, applied) ==
    IF ~(op.deps \subseteq applied)
    THEN [ok |-> FALSE, root |-> root, applied |-> applied]
    ELSE LET w == WalkCursor(root, op.cursor, 1)
         IN  IF ~w.ok
             THEN [ok |-> FALSE, root |-> w.tree, applied |-> applied]
             ELSE LET a == ApplyMutation(w.tree, op.cursor, op.mutation)
                  IN  IF ~a.ok
                      THEN [ok |-> FALSE, root |-> a.tree, applied |-> applied]
                      ELSE [ok |-> TRUE, root |-> a.tree,
                            applied |-> applied \cup {op.id}]

(***************************************************************************)
(* VersionVector: replica id -> highest counter recorded.                  *)
(***************************************************************************)
VvDefault == [r \in {} |-> 0]

VvRecord(vv, ts) ==
    LET old == IF ts.replica_id \in DOMAIN vv THEN vv[ts.replica_id] ELSE 0
    IN  [r \in DOMAIN vv \cup {ts.replica_id} |->
            IF r = ts.replica_id
            THEN (IF ts.counter > old THEN ts.counter ELSE old)
            ELSE vv[r]]

\* VersionVector::dominates
VvDominates(vv, ts) ==
    ts.replica_id \in DOMAIN vv /\ vv[ts.replica_id] >= ts.counter

\* the children of the node at path p
Children(t, p) == {q \in DOMAIN t : Len(q) = Len(p) + 1 /\ IsPrefix(p, q)}

\* map.retain(|_, v| !matches!(v, JsonNode::Tombstone)) on the Map at p
RetainLive(t, p) ==
    LET dead == {q \in Children(t, p) : t[q].tag = "Tombstone"}
        keep == {q \in DOMAIN t : \A d \in dead : ~IsPrefix(d, q)}
    IN  [q \in keep |-> t[q]]

\* compress on the Map at the root only, without the descent
CompressTopOnly(t, p) == IF t[p].tag = "Map" THEN RetainLive(t, p) ELSE t

\* JsonNode::compress on the node at path p: a Map drops its Tombstone
\* children, then every child left is compressed; any other node is left
\* as it is
RECURSIVE CompressNode(_, _)
RECURSIVE CompressEach(_, _)
CompressNode(t, p) ==
    IF t[p].tag # "Map" THEN t
    ELSE LET live == RetainLive(t, p)
         IN  CompressEach(live, Children(live, p))

\* the loop over map.values_mut()
CompressEach(t, nodes) ==
    IF nodes = {} THEN t
    ELSE LET c == CHOOSE n \in nodes : TRUE
         IN  CompressEach(CompressNode(t, c), nodes \ {c})

\* root.compress()
Compress(t) == CompressNode(t, <<>>)

(***************************************************************************)
(* CRDTIndex.  An index value is a record; every method is an operator     *)
(* from the index (and the process's PEER_ID, self) to the index after     *)
(* the call and the value returned.                                        *)
(***************************************************************************)
IndexNew ==
    [root |-> new_map, clock |-> 0, vv |-> VvDefault, applied |-> {},
     op_log |-> <<>>]

\* next_ts
NextTs(idx, self) ==
    [idx |-> [idx EXCEPT !.clock = idx.clock + 1],
     ts |-> LamportTimestamp(idx.clock + 1, self)]

\* current_deps
CurrentDeps(idx) ==
    {LamportTimestamp(idx.vv[rid], rid) : rid \in DOMAIN idx.vv}

\* record_apply: the result of apply is dropped; vv and op_log take the
\* operation whether or not it applied
RecordApply(idx, op) ==
    LET a == JsonApply(idx.root, op, idx.applied)
    IN  [idx EXCEPT !.root = a.root,
                    !.applied = a.applied,
                    !.vv = VvRecord(idx.vv, op.id),
                    !.op_log = Append(idx.op_log, op)]

\* make_op
MakeOp(idx, self, cursor, mutation) ==
    LET n == NextTs(idx, self)
    IN  [idx |-> n.idx,
         op |-> Operation(n.ts, CurrentDeps(n.idx), cursor, mutation)]

\* insert, edit and delete: one body, three mutations
InsertEditDelete(idx, self, cursor, mutation) ==
    LET n == NextTs(idx, self)
        op == Operation(n.ts, CurrentDeps(n.idx), cursor, mutation)
    IN  RecordApply(n.idx, op)

\* apply_local_op: insert/edit/delete issue and record one operation, then
\* make_op and record_apply issue and record a second one, which is returned
ApplyLocalOp(idx, self, cursor, mutation) ==
    LET first == InsertEditDelete(idx, self, cursor, mutation)
        m == MakeOp(first, self, cursor, mutation)
    IN  [idx |-> RecordApply(m.idx, m.op), op |-> m.op]

\* apply_remote past its guard: root.apply, and vv.record and op_log.push
\* when it succeeded
ApplyRemoteBody(idx, op) ==
    LET a == JsonApply(idx.root, op, idx.applied)
    IN  IF a.ok
        THEN [idx |-> [idx EXCEPT !.root = a.root,
                                  !.applied = a.applied,
                                  !.vv = VvRecord(idx.vv, op.id),
                                  !.op_log = Append(idx.op_log, op)],
              ok |-> TRUE]
        ELSE [idx |-> [idx EXCEPT !.root = a.root], ok |-> FALSE]

\* apply_remote without the test for an id already applied
ApplyRemoteNoDedup(idx, op) ==
    IF ~(\A d \in op.deps : d \in idx.applied)
    THEN [idx |-> idx, ok |-> FALSE]
    ELSE ApplyRemoteBody(idx, op)

\* apply_remote recording the id in vv before its guard
ApplyRemoteRecordsFirst(idx, op) ==
    LET seen == [idx EXCEPT !.vv = VvRecord(idx.vv, op.id)]
    IN  IF op.id \in idx.applied \/ ~(\A d \in op.deps : d \in idx.applied)
        THEN [idx |-> seen, ok |-> FALSE]
        ELSE ApplyRemoteBody(seen, op)

\* apply_remote
ApplyRemote(idx, op) ==
    IF op.id \in idx.applied \/ ~(\A d \in op.deps : d \in idx.applied)
    THEN [idx |-> idx, ok |-> FALSE]
    ELSE ApplyRemoteBody(idx, op)

\* _compact(retain_after)
Compact(idx, retain_after) ==
    [idx EXCEPT !.root = Compress(idx.root),
                !.op_log = SelectSeq(idx.op_log,
                                     LAMBDA op : ~VvDominates(retain_after, op.id))]

\* vv.record called for every id of a set
RECURSIVE VvRecordAll(_, _)
VvRecordAll(vv, ids) ==
    IF ids = {} THEN vv
    ELSE LET id == CHOOSE i \in ids : TRUE
         IN  VvRecordAll(VvRecord(vv, id), ids \ {id})

\* the elements of a set as an array, in the order the HashSet yields them
RECURSIVE SetToSeq(_)
SetToSeq(set) ==
    IF set = {} THEN <<>>
    ELSE LET x == CHOOSE y \in set : TRUE
         IN  <<x>> \o SetToSeq(set \ {x})

\* serde_json::to_vec_pretty of an index: the JSON document, with the tree
\* and vv as objects (members by key), applied and each deps as arrays,
\* op_log as an array
Serialize(idx) ==
    [root |-> {<<q, idx.root[q]>> : q \in DOMAIN idx.root},
     clock |-> idx.clock,
     vv |-> {<<r, idx.vv[r]>> : r \in DOMAIN idx.vv},
     applied |-> SetToSeq(idx.applied),
     op_log |-> [i \in 1..Len(idx.op_log) |->
                   [idx.op_log[i] EXCEPT !.deps = SetToSeq(@)]]]

\* serde_json::from_slice of such a document
Deserialize(doc) ==
    [root |-> [q \in {m[1] : m \in doc.root} |->
                 (CHOOSE m \in doc.root : m[1] = q)[2]],
     clock |-> doc.clock,
     vv |-> [r \in {m[1] : m \in doc.vv} |->
               (CHOOSE m \in doc.vv : m[1] = r)[2]],
     applied |-> {doc.applied[i] : i \in 1..Len(doc.applied)},
     op_log |-> [i \in 1..Len(doc.op_log) |->
                   [doc.op_log[i] EXCEPT
                       !.deps = {doc.op_log[i].deps[j] :
                                    j \in 1..Len(doc.op_log[i].deps)}]]]

\* load_or_init on the index read back: applied is rebuilt from op_log and
\* every id of it is recorded in vv
Rebuild(idx) ==
    LET ids == {idx.op_log[i].id : i \in 1..Len(idx.op_log)}
    IN  [idx EXCEPT !.applied = ids, !.vv = VvRecordAll(idx.vv, ids)]

\* save_to_disk, then load_or_init on the snapshot written, for a snapshot
\* that passes check_integrity
Reload(saved) == Rebuild(Deserialize(Serialize(saved)))

(***************************************************************************)
(* State.                                                                  *)
(***************************************************************************)
VARIABLES
    index,      \* replica -> its CRDTIndex
    last,       \* history: the last call made on an index
    pool,       \* exchange: the set of operations both replicas are to apply
    todo,       \* exchange: replica -> the operations it has not applied yet
    inbox,      \* replica -> the IndexCmd channel of its index task
    outbox,     \* replica -> the channel from its index task to its coordinator
    net,        \* replica -> the broadcast messages on their way to it
    events,     \* the filesystem events the translators have handled
    dups,       \* the messages the transport has delivered a second time
    issued,     \* history: broadcast operation -> the issuer's root before and after
    processed,  \* history: replica -> the broadcast operations its index task has handled
    maint,      \* the compactions and reloads done so far
    phase,      \* replica -> where its coordinator is: "handshake" or "steady"
    peer_arg,   \* replica -> args.peer_id: the bootstrap peer it names, "" for none
    first_time, \* replica -> the first_time flag of its handshake loop
    peer_ev,    \* replica -> its PeerConnectionEvent channel
    disk,       \* replica -> the regular files under its watched root: name -> content
    connected,  \* the two peers have discovered each other
    wakeups,    \* the periodic wakeups taken so far
    foreign,    \* the messages taken from peers outside the model so far
    hs_last,    \* history: the last PeerConnectionEvent message handled
    hs_pub,     \* history: replica -> the PeerConnectionEvent messages it published
    got_completed,  \* history: replica -> it received InitialConnCompleted for itself
    running,    \* replica -> its process is up
    boots,      \* the times load_or_init has run
    fsevents,   \* replica -> the events of its watcher's channel
    requests,   \* replica -> the file requests on their way to it
    responses,  \* replica -> the file responses on their way to it
    recently_written,   \* replica -> RECENTLY_WRITTEN
    user,       \* the changes users have made to the watched directories
    fetches,    \* the file responses handled so far
    watching,   \* replica -> its watcher thread is alive
    u_last,     \* history: the last change a user made
    w_last,     \* history: the last event a watcher took from its channel
    t_last      \* history: the last file response handled

exvars == <<pool, todo>>
sysvars == <<inbox, outbox, net, events, dups, issued, processed>>
hsvars == <<phase, peer_arg, first_time, peer_ev, disk, connected, wakeups,
            foreign, hs_last, hs_pub, got_completed>>
rtvars == <<running, boots, fsevents, requests, responses, recently_written,
            user, fetches, watching, u_last, w_last, t_last>>
auxvars == <<maint, hsvars, rtvars>>
vars == <<index, last, pool, todo, inbox, outbox, net, events, dups, issued, processed,
          maint, phase, peer_arg, first_time, peer_ev, disk, connected, wakeups,
          foreign, hs_last, hs_pub, got_completed, running, boots, fsevents,
          requests, responses, recently_written, user, fetches, watching, u_last, w_last, t_last>>

Range(s) == {s[i] : i \in 1..Len(s)}

\* history record of a call or of a command handled by the index task: the
\* replica, the method or command, the operation passed, returned or made,
\* the value returned, the index before, whether the call repeats the call
\* right before it (for a RemoteOp command: whether the broadcast operation
\* it comes from was handled before), and that broadcast operation
Call(r, kind, op, ok, pre, again, src) ==
    [r |-> r, kind |-> kind, op |-> op, ok |-> ok, pre |-> pre,
     again |-> again, src |-> src]

NoCall == Call("-", "none", NoOp, FALSE, IndexNew, FALSE, NoOp)

\* Sha256 of a content, rendered in hex: one string per content
Sha256(content) == <<"sha256", content>>

FileBlob(name, checksum, size, content) ==
    [name |-> name, checksum |-> checksum, size |-> size, content |-> content]

\* FileBlob::default(): the checksum is the empty string, which is the
\* Sha256 of no content at all, the empty content included
NoBlob == FileBlob("", <<>>, 0, <<>>)

\* PeerConnectionEvent
InitialConnection(target, source) ==
    [kind |-> "InitialConnection", target |-> target, source |-> source,
     blob |-> NoBlob]
SyncFile(target, blob) ==
    [kind |-> "SyncFile", target |-> target, source |-> "", blob |-> blob]
InitialConnCompleted(target) ==
    [kind |-> "InitialConnCompleted", target |-> target, source |-> "",
     blob |-> NoBlob]

\* history record of a PeerConnectionEvent message handled by inject_event:
\* the peer, the message, what the peer published while handling it, the
\* peer's files before, and what write_to_disk returned ("-" when it was
\* not called)
Handled(r, msg, out, before, result) ==
    [r |-> r, msg |-> msg, out |-> out, before |-> before, result |-> result]

NoHandled == Handled("-", InitialConnCompleted("-"), <<>>, <<>>, "-")

\* both coordinators in their steady-state loop, started without a peer id
HsIdle ==
    /\ phase = [r \in Replicas |-> "steady"]
    /\ peer_arg = [r \in Replicas |-> ""]
    /\ first_time = [r \in Replicas |-> TRUE]
    /\ peer_ev = [r \in Replicas |-> <<>>]
    /\ connected = TRUE
    /\ wakeups = [r \in Replicas |-> 0]
    /\ foreign = 0
    /\ hs_last = NoHandled
    /\ hs_pub = [r \in Replicas |-> <<>>]
    /\ got_completed = [r \in Replicas |-> FALSE]

\* history record of an event a watcher took from its channel: the peer,
\* the event, and the commands sent to the index task for it
Watched(r, event, sent) == [r |-> r, event |-> event, sent |-> sent]

\* an event of the watcher's channel: origin is history, the event does not
\* carry it
FsEvent(kind, name, origin) == [kind |-> kind, name |-> name, origin |-> origin]

NoWatched == Watched("-", FsEvent("None", "", "-"), <<>>)

\* FileRequest: hash and from are history, the request carries the name
\* alone: the content hash of the operation that made the peer ask, and
\* the peer that asks (the transport knows where the response goes)
FileRequest(name, from, hash) == [name |-> name, from |-> from, hash |-> hash]

\* a FileBlob sent as the response to a request
FileResponse(blob, hash) == [blob |-> blob, hash |-> hash]

\* history record of a file response handled: the peer, the blob, the
\* content hash of the operation that made the peer ask, the peer's files
\* before, and what write_to_disk returned
Fetched(r, blob, hash, before, result) ==
    [r |-> r, blob |-> blob, hash |-> hash, before |-> before,
     result |-> result]

NoFetched == Fetched("-", NoBlob, "-", <<>>, "-")

\* history record of a change a user made to a watched directory: the
\* replica, the kind of change, the name, and the replicas that held the
\* file right before
UserChange(r, kind, name, held) ==
    [r |-> r, kind |-> kind, name |-> name, held |-> held]

NoUserChange == UserChange("-", "None", "", {})

\* processes up, no file transfer under way, the watchers' channels empty
RtIdle ==
    /\ running = [r \in Replicas |-> TRUE]
    /\ boots = 0
    /\ fsevents = [r \in Replicas |-> <<>>]
    /\ requests = [r \in Replicas |-> <<>>]
    /\ responses = [r \in Replicas |-> <<>>]
    /\ recently_written = [r \in Replicas |-> <<>>]
    /\ user = 0
    /\ fetches = 0
    /\ watching = [r \in Replicas |-> TRUE]
    /\ u_last = NoUserChange
    /\ w_last = NoWatched
    /\ t_last = NoFetched

\* nothing queued, nothing in flight
SysIdle ==
    /\ inbox = [r \in Replicas |-> <<>>]
    /\ outbox = [r \in Replicas |-> <<>>]
    /\ net = [r \in Replicas |-> <<>>]
    /\ events = 0
    /\ dups = 0
    /\ issued = [o \in {} |-> 0]
    /\ processed = [r \in Replicas |-> {}]
    /\ maint = 0
    /\ HsIdle
    /\ RtIdle

(***************************************************************************)
(* The index as a library: apply_local_op and apply_remote called          *)
(* directly on two indexes created by CRDTIndex::new, the remote           *)
(* operations being those found in the op_log of either index.             *)
(***************************************************************************)
Metas == {"m1", "m2"}
ApiCursors == {<<"d">>}
ApiMutations ==
    {Mutation("New", "x", Entry("m1")), Mutation("Edit", "x", Entry("m2")),
     Mutation("Delete", "x", Tombstone)}

InitApi ==
    /\ index = [r \in Replicas |-> IndexNew]
    /\ last = NoCall
    /\ pool = {}
    /\ todo = [r \in Replicas |-> {}]
    /\ disk = [r \in Replicas |-> <<>>]
    /\ SysIdle

\* the timestamps issued so far: every next_ts adds one to a clock
Issued == index["A"].clock + index["B"].clock

KnownOps == UNION {Range(index[r].op_log) : r \in Replicas}

ApiLocal(r, cursor, mutation) ==
    /\ Issued + 2 <= MaxIssued
    /\ LET res == ApplyLocalOp(index[r], r, cursor, mutation)
       IN  /\ index' = [index EXCEPT ![r] = res.idx]
           /\ last' = Call(r, "apply_local_op", res.op, TRUE, index[r], FALSE, NoOp)
           /\ UNCHANGED <<exvars, sysvars, auxvars>>

ApiRemote(r, op) ==
    LET res == ApplyRemote(index[r], op)
    IN  /\ index' = [index EXCEPT ![r] = res.idx]
        /\ last' = Call(r, "apply_remote", op, res.ok, index[r],
                        last.kind = "apply_remote" /\ last.r = r /\ last.op = op,
                        NoOp)
        /\ UNCHANGED <<exvars, sysvars, auxvars>>

\* make_op called on its own, as timed_remote_test calls it: the operation
\* is returned to the caller and recorded nowhere
ApiMakeOp(r, cursor, mutation) ==
    /\ Issued + 1 <= MaxIssued
    /\ LET m == MakeOp(index[r], r, cursor, mutation)
       IN  /\ index' = [index EXCEPT ![r] = m.idx]
           /\ last' = Call(r, "make_op", m.op, TRUE, index[r], FALSE, NoOp)
           /\ UNCHANGED <<exvars, sysvars, auxvars>>

\* _compact with the version vector some replica holds as retain_after
ApiCompact(r, q) ==
    /\ maint < MaxMaint
    /\ maint' = maint + 1
    /\ index' = [index EXCEPT ![r] = Compact(index[r], index[q].vv)]
    /\ last' = Call(r, "_compact", NoOp, TRUE, index[r], FALSE, NoOp)
    /\ UNCHANGED <<exvars, sysvars, hsvars, rtvars>>

ApiReload(r) ==
    /\ maint < MaxMaint
    /\ maint' = maint + 1
    /\ index' = [index EXCEPT ![r] = Reload(index[r])]
    /\ last' = Call(r, "load_or_init", NoOp, TRUE, index[r], FALSE, NoOp)
    /\ UNCHANGED <<exvars, sysvars, hsvars, rtvars>>

NextApi ==
    \/ \E r \in Replicas, c \in ApiCursors, m \in ApiMutations : ApiLocal(r, c, m)
    \/ \E r \in Replicas : \E op \in KnownOps : ApiRemote(r, op)
    \/ \E r \in Replicas, c \in ApiCursors, m \in ApiMutations : ApiMakeOp(r, c, m)

SpecApi == InitApi /\ [][NextApi]_vars

\* the same calls with the maintenance operations: compaction and a
\* save followed by a reload
NextMaint ==
    \/ /\ Issued + 2 <= MaxMaintIssued
       /\ \E r \in Replicas, c \in ApiCursors, m \in ApiMutations : ApiLocal(r, c, m)
    \/ \E r \in Replicas, op \in KnownOps : ApiRemote(r, op)
    \/ \E r, q \in Replicas : ApiCompact(r, q)
    \/ \E r \in Replicas : ApiReload(r)

SpecMaint == InitApi /\ [][NextMaint]_vars


(***************************************************************************)
(* C7: a second apply_remote(op) right after a first one returns false and *)
(* leaves root, op_log, vv and applied as the first call left them.        *)
(***************************************************************************)
C7_SecondApplyRemoteNoEffect ==
    (last.kind = "apply_remote" /\ last.again) =>
        /\ ~last.ok
        /\ index[last.r].root = last.pre.root
        /\ index[last.r].op_log = last.pre.op_log
        /\ index[last.r].vv = last.pre.vv
        /\ index[last.r].applied = last.pre.applied

\* a second call of an operation the first call applied
C7_Witness ==
    /\ last.kind = "apply_remote"
    /\ last.again
    /\ last.op.id \in last.pre.applied
    /\ last.op \in Range(last.pre.op_log)
    /\ last.op.id.replica_id # last.r

(***************************************************************************)
(* C8: apply_remote(op) with a dep that is not in applied returns false    *)
(* and leaves root, op_log, vv, applied and clock as they were.            *)
(***************************************************************************)
C8_MissingDepsNoChange ==
    (last.kind = "apply_remote" /\ ~(last.op.deps \subseteq last.pre.applied)) =>
        /\ ~last.ok
        /\ index[last.r] = last.pre

\* an operation of the other replica arrives before the one it depends on
C8_Witness ==
    /\ last.kind = "apply_remote"
    /\ ~(last.op.deps \subseteq last.pre.applied)
    /\ last.op.id \notin last.pre.applied
    /\ last.op.id.replica_id # last.r

(***************************************************************************)
(* C9: after any sequence of apply_local_op and apply_remote calls,        *)
(* applied is the set of the ids of the operations in op_log.              *)
(***************************************************************************)
C9_AppliedIsLogIds ==
    \A r \in Replicas :
        index[r].applied = {op.id : op \in Range(index[r].op_log)}

(***************************************************************************)
(* C10: every dep of an operation of op_log was in applied when the        *)
(* operation was appended.  No call removes an id from applied, so the     *)
(* deps of every logged operation are then in applied in every later       *)
(* state, which is what the formula states.                                *)
(***************************************************************************)
C10_LoggedDepsApplied ==
    \A r \in Replicas :
        \A op \in Range(index[r].op_log) : op.deps \subseteq index[r].applied

(***************************************************************************)
(* C14: after a replica applies an operation that another replica issued   *)
(* with counter c, its clock is at least c.                                *)
(***************************************************************************)
C14_ClockMergedOnApply ==
    (/\ last.kind = "apply_remote"
     /\ last.ok
     /\ last.op.id.replica_id # last.r) =>
        index[last.r].clock >= last.op.id.counter

(***************************************************************************)
(* C15: make_op leaves the index unchanged: clock, vv, applied, op_log and *)
(* root are after the call what they were before it.                       *)
(***************************************************************************)
C15_MakeOpChangesNothing ==
    last.kind = "make_op" => index[last.r] = last.pre

(***************************************************************************)
(* C13: in every index state reached by apply_local_op, apply_remote,      *)
(* compaction and save/reload, vv maps each replica with an id in op_log   *)
(* to the greatest counter of its ids there, and no other replica.         *)
(***************************************************************************)
C13_VvIsMaxOfLog ==
    \A r \in Replicas :
        LET ids == {index[r].op_log[i].id : i \in 1..Len(index[r].op_log)}
        IN  /\ DOMAIN index[r].vv = {id.replica_id : id \in ids}
            /\ \A q \in DOMAIN index[r].vv :
                  /\ \E id \in ids :
                        id.replica_id = q /\ id.counter = index[r].vv[q]
                  /\ \A id \in ids :
                        id.replica_id = q => id.counter <= index[r].vv[q]

(***************************************************************************)
(* The exchange: a set of operations, issued by the two replicas, that     *)
(* each of two indexes created by CRDTIndex::new applies with              *)
(* apply_remote, every operation once and only when its deps are in the    *)
(* index's applied set.  The two indexes may take different orders.        *)
(***************************************************************************)
\* the operation that installed the child both replicas may start with
BaseOp ==
    Operation(LamportTimestamp(1, "A"), {}, <<"d">>,
              Mutation("New", "x", Entry("m0")))

PoolIds == {LamportTimestamp(c, r) : c \in 2..MaxCounter, r \in Replicas}

\* the value an operation writes names the replica that issued it
MetaOf(id) == IF id.replica_id = "A" THEN "m1" ELSE "m2"

ExCursor == <<"d">>
ExChild == <<"d", "x">>

ExMutations(id) ==
    {Mutation("New", "x", Entry(MetaOf(id))),
     Mutation("Edit", "x", Entry(MetaOf(id))),
     Mutation("Delete", "x", Tombstone)}

\* the deps make_op would give id when the issuer has seen, of the ids in
\* seen, its own latest one and at most one of each other replica: a
\* frontier as current_deps projects it from a version vector
Frontiers(id, seen) ==
    LET lower == {d \in seen : d.counter < id.counter}
        own == {d \in lower : d.replica_id = id.replica_id}
        latest == {d \in own : \A e \in own : e.counter <= d.counter}
        others == {d \in lower : d.replica_id # id.replica_id}
    IN  {latest \cup F : F \in {G \in SUBSET others : Cardinality(G) <= 1}}

\* the operations that may carry id in a pool whose ids are ids, with the
\* ids in known applied beforehand
OpsOf(id, ids, known) ==
    {Operation(id, deps, ExCursor, m) :
        deps \in Frontiers(id, known \cup ids), m \in ExMutations(id)}

RECURSIVE PoolsFrom(_, _, _)
PoolsFrom(rest, ids, known) ==
    IF rest = {} THEN {{}}
    ELSE LET id == CHOOSE i \in rest : TRUE
         IN  {P \cup {op} : P \in PoolsFrom(rest \ {id}, ids, known),
                            op \in OpsOf(id, ids, known)}

Pools(known) ==
    UNION {PoolsFrom(S, S, known) :
              S \in {T \in SUBSET PoolIds : Cardinality(T) <= MaxPool}}

\* both indexes start from CRDTIndex::new, or both from the index that has
\* applied BaseOp
InitExchange ==
    /\ \E start \in {IndexNew, ApplyRemote(IndexNew, BaseOp).idx} :
          /\ index = [r \in Replicas |-> start]
          /\ pool \in Pools(start.applied)
    /\ last = NoCall
    /\ todo = [r \in Replicas |-> pool]
    /\ disk = [r \in Replicas |-> <<>>]
    /\ SysIdle

ExchangeApply(r, op) ==
    /\ op \in todo[r]
    /\ op.deps \subseteq index[r].applied
    /\ LET res == ApplyRemote(index[r], op)
       IN  index' = [index EXCEPT ![r] = res.idx]
    /\ todo' = [todo EXCEPT ![r] = todo[r] \ {op}]
    /\ UNCHANGED <<pool, last, sysvars, auxvars>>

NextExchange == \E r \in Replicas : \E op \in pool : ExchangeApply(r, op)

SpecExchange == InitExchange /\ [][NextExchange]_vars

\* every operation of the pool has been applied, with success, by r
AppliedAll(r) ==
    /\ todo[r] = {}
    /\ {op.id : op \in pool} \subseteq index[r].applied

StartedWithBase == \A r \in Replicas : BaseOp.id \in index[r].applied

(***************************************************************************)
(* C1: two replicas that start from the empty root and apply the same set  *)
(* of operations, each in an order that respects deps, end with equal      *)
(* trees.                                                                  *)
(***************************************************************************)
C1_SameOpsSameTree ==
    (~StartedWithBase /\ AppliedAll("A") /\ AppliedAll("B")) =>
        index["A"].root = index["B"].root

\* two New or Edit operations on the child both replicas hold, each issued
\* by a replica that had applied the operation installing the child, neither
\* in the deps of the other
ConcurrentWrites ==
    /\ StartedWithBase
    /\ Cardinality(pool) = 2
    /\ \A o \in pool : o.mutation.kind \in {"New", "Edit"}
    /\ \A o \in pool : BaseOp.id \in o.deps
    /\ \A o1, o2 \in pool : o1.id \notin o2.deps

\* the operation of the pool with the greatest (counter, replica_id)
Greatest == CHOOSE o \in pool : \A q \in pool : q = o \/ TsLess(q.id, o.id)

(***************************************************************************)
(* C2: after two concurrent New/Edit operations on a child both replicas   *)
(* hold, each replica that has applied both holds the value of the         *)
(* operation with the greater timestamp.                                   *)
(***************************************************************************)
C2_GreaterTimestampWins ==
    ConcurrentWrites =>
        \A r \in Replicas :
            AppliedAll(r) => index[r].root[ExChild] = Greatest.mutation.value

\* the pool is a Delete d and an Edit e of the child both replicas hold,
\* neither in the deps of the other
DeleteAndEdit(d, e) ==
    /\ StartedWithBase
    /\ pool = {d, e}
    /\ d.mutation.kind = "Delete"
    /\ e.mutation.kind = "Edit"
    /\ d.id \notin e.deps
    /\ e.id \notin d.deps

\* the tree with the child at d/x deleted
DeletedTree ==
    (<<>> :> MapNode) @@ (<<"d">> :> MapNode) @@ (ExChild :> Tombstone)

(***************************************************************************)
(* C3: a Delete and an Edit issued concurrently against an existing child  *)
(* end with the child Tombstone in both orders: once the Delete is         *)
(* applied the tree holds the Tombstone, an Edit that comes after it fails *)
(* (it is neither applied nor logged) and changes nothing, and a Delete    *)
(* that comes after the Edit overwrites the edited value.                  *)
(***************************************************************************)
C3_DeleteDominatesEdit ==
    \A d, e \in pool :
        DeleteAndEdit(d, e) =>
            \A r \in Replicas :
                /\ d \notin todo[r] =>
                      /\ index[r].root = DeletedTree
                      /\ d.id \in index[r].applied
                /\ (d \notin todo[r] /\ e \notin todo[r]) =>
                      \/ /\ e.id \notin index[r].applied
                         /\ index[r].op_log = <<BaseOp, d>>
                      \/ /\ e.id \in index[r].applied
                         /\ index[r].op_log = <<BaseOp, e, d>>

\* both orders have been taken: A applied the Edit and then the Delete, B
\* the Delete and then the Edit, which failed
C3_Witness ==
    \E d, e \in pool :
        /\ DeleteAndEdit(d, e)
        /\ todo["A"] = {}
        /\ todo["B"] = {}
        /\ index["A"].op_log = <<BaseOp, e, d>>
        /\ index["B"].op_log = <<BaseOp, d>>

(***************************************************************************)
(* The running system: on each replica the event translator turns          *)
(* filesystem events into LocalOp commands, the index task handles the     *)
(* commands of its channel one at a time, the coordinator publishes the    *)
(* operations the index task hands it, and the gossip layer turns each     *)
(* operation received into a RemoteOp command.                             *)
(*                                                                         *)
(* An EntryMeta is kept as the one string that tells two versions of an    *)
(* entry apart (the content hash of a file, "dir" for a directory).        *)
(* Paths are sequences of components.                                      *)
(***************************************************************************)
WATCHED_PATH == <<"/", "home", "w">>
Files == {"a"}

\* last_name: the last normal component
last_name(path) == path[Len(path)]

\* relative_intersection, for a sub path of one component: full from the
\* first place where that component stands
relative_intersection(full, name) ==
    LET at == CHOOSE i \in 1..Len(full) :
                  full[i] = name /\ \A j \in 1..(i - 1) : full[j] # name
    IN  SubSeq(full, at, Len(full))

compute_file_relative_path(abs) ==
    relative_intersection(abs, last_name(WATCHED_PATH))

\* path_to_vec: the normal components, as strings
path_to_vec(path) == SelectSeq(path, LAMBDA c : c \notin {"/", ".", ".."})

\* Path::to_string_lossy of a relative path: components joined by the separator
RECURSIVE to_string_lossy(_)
to_string_lossy(path) ==
    IF Len(path) = 1 THEN path[1]
    ELSE path[1] \o "/" \o to_string_lossy(Tail(path))

LocalOp(cur, mutation) == [kind |-> "LocalOp", cur |-> cur, mutation |-> mutation, src |-> NoOp]

\* src is history, not part of the command: the broadcast operation the
\* gossip layer made the command from
RemoteOp(cur, mutation, src) ==
    [kind |-> "RemoteOp", cur |-> cur, mutation |-> mutation, src |-> src]

\* the cold start of load_or_init on an index path with no snapshot: one
\* New per entry WalkDir yields, the watched root first; cursor is the
\* components of the relative path, key the file name
RECURSIVE ColdStart(_, _, _)
ColdStart(idx, self, entries) ==
    IF entries = <<>> THEN idx
    ELSE LET abs == Head(entries).path
             m == MakeOp(idx, self, compute_file_relative_path(abs),
                         Mutation("New", last_name(abs), Entry(Head(entries).meta)))
         IN  ColdStart(RecordApply(m.idx, m.op), self, Tail(entries))

\* what WalkDir yields for a watched root that holds the files of names
WalkDir(names) ==
    LET RECURSIVE walk(_)
        walk(rest) ==
            IF rest = {} THEN <<>>
            ELSE LET n == CHOOSE x \in rest : TRUE
                 IN  <<[path |-> Append(WATCHED_PATH, n), meta |-> "m0"]>>
                        \o walk(rest \ {n})
    IN  <<[path |-> WATCHED_PATH, meta |-> "dir"]>> \o walk(names)

Init ==
    /\ \E dirs \in [Replicas -> SUBSET Files] :
          index = [r \in Replicas |-> ColdStart(IndexNew, r, WalkDir(dirs[r]))]
    /\ last = NoCall
    /\ pool = {}
    /\ todo = [r \in Replicas |-> {}]
    /\ disk = [r \in Replicas |-> <<>>]
    /\ SysIdle

\* extract_new_cmd, extract_update_cmd (ModifyKind::Data) and
\* extract_remove_op on the one path of the event, with the metadata
\* EntryMeta::from_path reads
Translate(kind, abs, meta) ==
    LET path == compute_file_relative_path(abs)
        key == to_string_lossy(path)
    IN  LocalOp(path_to_vec(path),
                CASE kind = "Create" -> Mutation("New", key, Entry(meta))
                  [] kind = "Modify" -> Mutation("Edit", key, Entry(meta))
                  [] kind = "Remove" -> Mutation("Delete", key, Tombstone))

\* watch_path, which start_coordination calls once the handshake loop is
\* left: one event of the watcher's channel is translated and the command
\* sent to the index task
WatchEvent(r, kind, abs, meta) ==
    /\ phase[r] = "steady"
    /\ events < MaxEvents
    /\ events' = events + 1
    /\ inbox' = [inbox EXCEPT ![r] = Append(@, Translate(kind, abs, meta))]
    /\ UNCHANGED <<index, last, exvars, outbox, net, dups, issued, processed, auxvars>>

\* build_index, the LocalOp arm: apply_local_op, save_to_disk, and the
\* operation returned goes to the coordinator
IndexTaskLocalOp(r) ==
    /\ inbox[r] # <<>>
    /\ Head(inbox[r]).kind = "LocalOp"
    /\ LET cmd == Head(inbox[r])
           res == ApplyLocalOp(index[r], r, cmd.cur, cmd.mutation)
       IN  /\ index' = [index EXCEPT ![r] = res.idx]
           /\ outbox' = [outbox EXCEPT ![r] = Append(@, res.op)]
           /\ last' = Call(r, "LocalOp", res.op, TRUE, index[r], FALSE, NoOp)
           /\ issued' = (res.op :> [pre |-> index[r].root, post |-> res.idx.root])
                            @@ issued
    /\ inbox' = [inbox EXCEPT ![r] = Tail(@)]
    /\ UNCHANGED <<exvars, net, events, dups, processed, auxvars>>

\* build_index, the RemoteOp arm: make_op stamps the mutation with an id
\* and deps of this replica, apply_remote applies that operation
IndexTaskRemoteOp(r) ==
    /\ inbox[r] # <<>>
    /\ Head(inbox[r]).kind = "RemoteOp"
    /\ LET cmd == Head(inbox[r])
           m == MakeOp(index[r], r, cmd.cur, cmd.mutation)
           res == ApplyRemote(m.idx, m.op)
       IN  /\ index' = [index EXCEPT ![r] = res.idx]
           /\ last' = Call(r, "RemoteOp", m.op, res.ok, index[r],
                           cmd.src \in processed[r], cmd.src)
           /\ processed' = [processed EXCEPT ![r] = @ \cup {cmd.src}]
    /\ inbox' = [inbox EXCEPT ![r] = Tail(@)]
    /\ UNCHANGED <<exvars, outbox, net, events, dups, issued, auxvars>>

\* start_coordination, the steady-state loop: an operation received from
\* the index task is published on the topic, which sends it to every other
\* subscribed peer
Publish(r) ==
    /\ outbox[r] # <<>>
    /\ net' = [q \in Replicas |->
                  IF q = r THEN net[q] ELSE Append(net[q], Head(outbox[r]))]
    /\ outbox' = [outbox EXCEPT ![r] = Tail(@)]
    /\ UNCHANGED <<index, last, exvars, inbox, events, dups, issued, processed, auxvars>>

\* inject_event(FloodsubEvent::Message) for a payload that parses as an
\* Operation: the mutation goes to the index task as a RemoteOp whose
\* cursor is the key alone, and for a New or an Edit a FileRequest for the
\* key goes to the peer named in the id of the operation.  With again the
\* transport keeps the message and will deliver it once more.
GossipMessage(r, again) ==
    /\ net[r] # <<>>
    /\ LET parsed == Head(net[r])
       IN  /\ inbox' = [inbox EXCEPT ![r] =
                           Append(@, RemoteOp(<<parsed.mutation.key>>,
                                              parsed.mutation, parsed))]
           /\ requests' =
                 IF parsed.mutation.kind \in {"New", "Edit"}
                 THEN [requests EXCEPT ![parsed.id.replica_id] =
                          Append(@, FileRequest(parsed.mutation.key, r,
                                                parsed.mutation.value.meta))]
                 ELSE requests
    /\ IF again
       THEN dups < MaxDup /\ dups' = dups + 1 /\ UNCHANGED net
       ELSE net' = [net EXCEPT ![r] = Tail(@)] /\ UNCHANGED dups
    /\ UNCHANGED <<index, last, exvars, outbox, events, issued, processed, maint,
                   hsvars, running, boots, fsevents, responses, recently_written,
                   user, fetches, watching, u_last, w_last, t_last>>

Next ==
    \/ \E r \in Replicas, kind \in {"Create", "Modify", "Remove"},
          f \in Files, meta \in Metas :
            WatchEvent(r, kind, Append(WATCHED_PATH, f), meta)
    \/ \E r \in Replicas : IndexTaskLocalOp(r)
    \/ \E r \in Replicas : IndexTaskRemoteOp(r)
    \/ \E r \in Replicas : Publish(r)
    \/ \E r \in Replicas, again \in BOOLEAN : GossipMessage(r, again)

Spec == Init /\ [][Next]_vars

(***************************************************************************)
(* C4: when a replica whose tree equals the tree the issuer had before its *)
(* LocalOp handles the broadcast of the operation that LocalOp produced,   *)
(* its tree becomes the tree the issuer had after the LocalOp: the entry   *)
(* sits under the same cursor and key on both replicas.                    *)
(***************************************************************************)
C4_SameEntryOnBothReplicas ==
    (/\ last.kind = "RemoteOp"
     /\ ~last.again
     /\ last.pre.root = issued[last.src].pre) =>
        index[last.r].root = issued[last.src].post

(***************************************************************************)
(* C5: handling a broadcast operation whose deps hold an id that is not in *)
(* the receiver's applied set leaves the receiver's root and op_log        *)
(* unchanged.                                                              *)
(***************************************************************************)
C5_ReceivedDepsGuardApply ==
    (/\ last.kind = "RemoteOp"
     /\ ~(last.src.deps \subseteq last.pre.applied)) =>
        /\ index[last.r].root = last.pre.root
        /\ index[last.r].op_log = last.pre.op_log

(***************************************************************************)
(* C6: handling a broadcast operation that was delivered and handled       *)
(* before leaves the index (root, op_log, vv, applied, clock) as it was.   *)
(***************************************************************************)
C6_SecondDeliveryNoEffect ==
    (last.kind = "RemoteOp" /\ last.again) => index[last.r] = last.pre

\* the mutation can be applied under the cursor on this tree, deps aside
StructurallyValid(root, cursor, mutation) ==
    JsonApply(root, Operation(NoOp.id, {}, cursor, mutation), {}).ok

\* an operation of the log that failed to apply
FailedBefore(idx) == \E o \in Range(idx.op_log) : o.id \notin idx.applied

(***************************************************************************)
(* C11: a command that failed to apply affects only itself: a later        *)
(* LocalOp or RemoteOp command that is structurally valid on the tree it   *)
(* meets is applied (its operation's id enters applied) and the tree       *)
(* becomes the tree with its mutation applied.                             *)
(***************************************************************************)
C11_FailureStaysLocal ==
    (/\ last.kind \in {"LocalOp", "RemoteOp"}
     /\ FailedBefore(last.pre)
     /\ StructurallyValid(last.pre.root, last.op.cursor, last.op.mutation)) =>
        /\ last.op.id \in index[last.r].applied
        /\ index[last.r].root =
              JsonApply(last.pre.root,
                        Operation(NoOp.id, {}, last.op.cursor, last.op.mutation),
                        {}).root

(***************************************************************************)
(* C12: handling one LocalOp command appends exactly one operation to      *)
(* op_log, op_log's length and the clock each growing by one, and hands    *)
(* the coordinator one message, which carries that operation; nothing      *)
(* else is ever handed to the coordinator (a RemoteOp command emits        *)
(* nothing).                                                               *)
(***************************************************************************)
C12_OneOperationPerLocalOp ==
    /\ last.kind = "LocalOp" =>
          /\ Len(index[last.r].op_log) = Len(last.pre.op_log) + 1
          /\ index[last.r].clock = last.pre.clock + 1
          /\ index[last.r].op_log[Len(index[last.r].op_log)] = last.op
          /\ outbox[last.r] # <<>>
          /\ outbox[last.r][Len(outbox[last.r])] = last.op
    /\ \A r \in Replicas : Range(outbox[r]) \subseteq DOMAIN issued

(***************************************************************************)
(* The initial connection.  A peer started with a peer id (the joiner)     *)
(* runs the handshake loop of start_coordination before its watcher        *)
(* starts; a peer started without one goes to the steady-state loop at     *)
(* once.  The swarm is polled in both loops, so inject_event handles the   *)
(* messages of the topic in both.  A is started without a peer id, B with  *)
(* A's or with none.                                                       *)
(***************************************************************************)

\* the entries of a watched root by name: regular files with their content,
\* and entries that are neither a regular file nor a directory
File(content) == [kind |-> "file", content |-> content]
Fifo == [kind |-> "fifo", content |-> <<>>]

\* the snapshot save_to_disk wrote at the end of the cold start: the bytes
\* hold the replica id, so two replicas' snapshots differ
Snapshot(r) == File(<<9, RidRank(r)>>)

\* the watched roots the peers are started on
Roots(r) ==
    LET entries(n) ==
            IF r = "A"
            THEN IF n = "a" THEN {File(<<1>>), Fifo} ELSE {File(<<2, 2>>)}
            ELSE IF n = "a" THEN {File(<<3>>)} ELSE {}
        all == {File(<<1>>), File(<<2, 2>>), File(<<3>>), Fifo}
    IN  {("index.json" :> Snapshot(r)) @@ f :
            f \in UNION {{g \in [names -> all] :
                             \A n \in names : g[n] \in entries(n)} :
                         names \in SUBSET {"a", "b"}}}

RegularFiles(files) == {n \in DOMAIN files : files[n].kind = "file"}

\* Path::new of a name collect_files_to_be_synced made: the components that
\* to_string_lossy joined
PathNew(name) ==
    LET known == {<<last_name(WATCHED_PATH), n>> : n \in {"a", "b", "index.json"}}
    IN  IF \E p \in known : to_string_lossy(p) = name
        THEN CHOOSE p \in known : to_string_lossy(p) = name
        ELSE <<name>>

\* smart_join: b appended to a without the longest prefix of b that is a
\* suffix of a
smart_join(a, b) ==
    LET fits == {i \in 1..(IF Len(a) < Len(b) THEN Len(a) ELSE Len(b)) :
                    SubSeq(a, Len(a) - i + 1, Len(a)) = SubSeq(b, 1, i)}
        overlap == IF fits = {} THEN 0
                   ELSE CHOOSE i \in fits : \A j \in fits : j <= i
    IN  a \o SubSeq(b, overlap + 1, Len(b))

\* the FileBlob collect_files_to_be_synced makes of the regular file n
BlobOf(files, n) ==
    FileBlob(to_string_lossy(compute_file_relative_path(Append(WATCHED_PATH, n))),
             Sha256(files[n].content), Len(files[n].content), files[n].content)

\* collect_files_to_be_synced: one blob per regular file, in the order
\* read_dir yields the entries, which is any order
collect_files_to_be_synced(files) ==
    LET regular == RegularFiles(files)
        orders == {o \in [1..Cardinality(regular) -> regular] :
                      \A i, j \in DOMAIN o : o[i] = o[j] => i = j}
    IN  {[i \in DOMAIN o |-> BlobOf(files, o[i])] : o \in orders}

\* the value write_to_disk returns and the files afterwards
Written(result, files) == [result |-> result, files |-> files]

write_to_disk_unverified(files, base_path, blob) ==
    LET full_path == smart_join(base_path, PathNew(blob.name))
    IN  Written("Ok", (last_name(full_path) :> File(blob.content)) @@ files)

\* write_to_disk, for a base_path at or under the watched root
write_to_disk(files, base_path, blob) ==
    LET full_path == smart_join(base_path, PathNew(blob.name))
    IN  IF Sha256(blob.content) # blob.checksum THEN Written("Err", files)
        ELSE IF Len(blob.content) # blob.size THEN Written("Err", files)
        ELSE Written("Ok", (last_name(full_path) :> File(blob.content)) @@ files)

\* inject_event, the InitialConnection arm: what the peer publishes
InjectInitialConnectionAnyPeer(self, msg, blobs) ==
    [i \in 1..Len(blobs) |-> SyncFile(msg.source, blobs[i])]
        \o <<InitialConnCompleted(msg.target)>>

InjectInitialConnection(self, msg, blobs) ==
    IF self = msg.target
    THEN [i \in 1..Len(blobs) |-> SyncFile(msg.source, blobs[i])]
            \o <<InitialConnCompleted(msg.target)>>
    ELSE <<>>

\* inject_event, the SyncFile arm: the peer's files afterwards, and what
\* write_to_disk returned
InjectSyncFile(self, msg, files) ==
    IF self = msg.target THEN write_to_disk(files, WATCHED_PATH, msg.blob)
    ELSE Written("-", files)

\* inject_event, the InitialConnCompleted arm: what goes to peer_tx
InjectInitialConnCompletedAnyPeer(self, msg) == <<msg>>

InjectInitialConnCompleted(self, msg) ==
    IF self = msg.target THEN <<msg>> ELSE <<>>

IsPeerConnectionEvent(msg) == "kind" \in DOMAIN msg

\* floodsub.publish: the messages go to the other peer if it is in the
\* partial view, and never to the publisher
FloodsubPublish(r, msgs) ==
    /\ net' = [q \in Replicas |->
                 IF q # r /\ connected THEN net[q] \o msgs ELSE net[q]]
    /\ hs_pub' = [hs_pub EXCEPT ![r] = @ \o msgs]

InitHandshake ==
    /\ \E roots \in [Replicas -> UNION {Roots(r) : r \in Replicas}] :
          /\ \A r \in Replicas : roots[r] \in Roots(r)
          /\ disk = roots
          /\ index = [r \in Replicas |->
                        ColdStart(IndexNew, r,
                                  WalkDir(RegularFiles(roots[r]) \ {"index.json"}))]
    /\ \E arg \in {"", "A"} : peer_arg = [r \in Replicas |-> IF r = "B" THEN arg ELSE ""]
    /\ phase = [r \in Replicas |-> IF peer_arg[r] = "" THEN "steady" ELSE "handshake"]
    /\ connected \in BOOLEAN
    /\ first_time = [r \in Replicas |-> TRUE]
    /\ peer_ev = [r \in Replicas |-> <<>>]
    /\ wakeups = [r \in Replicas |-> 0]
    /\ foreign = 0
    /\ hs_last = NoHandled
    /\ hs_pub = [r \in Replicas |-> <<>>]
    /\ got_completed = [r \in Replicas |-> FALSE]
    /\ last = NoCall
    /\ pool = {}
    /\ todo = [r \in Replicas |-> {}]
    /\ inbox = [r \in Replicas |-> <<>>]
    /\ outbox = [r \in Replicas |-> <<>>]
    /\ net = [r \in Replicas |-> <<>>]
    /\ events = 0
    /\ dups = 0
    /\ issued = <<>>
    /\ processed = [r \in Replicas |-> {}]
    /\ maint = 0
    /\ RtIdle

\* the handshake loop, the sleep branch
Wakeup(r) ==
    /\ phase[r] = "handshake"
    /\ wakeups[r] < MaxWakeups
    /\ wakeups' = [wakeups EXCEPT ![r] = @ + 1]
    /\ IF first_time[r]
       THEN /\ peer_ev' = [peer_ev EXCEPT ![r] =
                              IF peer_arg[r] # ""
                              THEN Append(@, InitialConnection(peer_arg[r], r))
                              ELSE @]
            /\ first_time' = [first_time EXCEPT ![r] = FALSE]
       ELSE UNCHANGED <<peer_ev, first_time>>
    /\ UNCHANGED <<index, last, exvars, sysvars, maint, phase, peer_arg, disk,
                   connected, foreign, hs_last, hs_pub, got_completed, rtvars>>

\* the handshake loop, the peer_ev_rcv branch, with
\* handle_initial_peer_connection
HandshakeRecv(r) ==
    /\ phase[r] = "handshake"
    /\ peer_ev[r] # <<>>
    /\ peer_ev' = [peer_ev EXCEPT ![r] = Tail(@)]
    /\ IF Head(peer_ev[r]).kind = "InitialConnection"
       THEN /\ FloodsubPublish(r, IF peer_arg[r] # ""
                                  THEN <<InitialConnection(peer_arg[r], r)>>
                                  ELSE <<>>)
            /\ UNCHANGED phase
       ELSE /\ phase' = [phase EXCEPT ![r] = "steady"]
            /\ UNCHANGED <<net, hs_pub>>
    /\ UNCHANGED <<index, last, exvars, inbox, outbox, events, dups, issued,
                   processed, maint, peer_arg, first_time, disk, connected,
                   wakeups, foreign, hs_last, got_completed, rtvars>>

\* inject_event(FloodsubEvent::Message) for a payload that parses as a
\* PeerConnectionEvent
InjectPeerConnectionEvent(r) ==
    /\ net[r] # <<>>
    /\ IsPeerConnectionEvent(Head(net[r]))
    /\ LET msg == Head(net[r])
       IN  \E blobs \in collect_files_to_be_synced(disk[r]) :
             LET out == IF msg.kind = "InitialConnection"
                        THEN InjectInitialConnection(r, msg, blobs) ELSE <<>>
                 sync == IF msg.kind = "SyncFile"
                         THEN InjectSyncFile(r, msg, disk[r])
                         ELSE Written("-", disk[r])
                 fwd == IF msg.kind = "InitialConnCompleted"
                        THEN InjectInitialConnCompleted(r, msg) ELSE <<>>
             IN  /\ net' = [q \in Replicas |->
                              IF q = r THEN Tail(net[q])
                              ELSE IF connected THEN net[q] \o out ELSE net[q]]
                 /\ hs_pub' = [hs_pub EXCEPT ![r] = @ \o out]
                 /\ disk' = [disk EXCEPT ![r] = sync.files]
                 /\ peer_ev' = [peer_ev EXCEPT ![r] = @ \o fwd]
                 /\ hs_last' = Handled(r, msg, out, disk[r], sync.result)
                 /\ got_completed' =
                       [got_completed EXCEPT ![r] =
                           @ \/ (msg.kind = "InitialConnCompleted" /\ msg.target = r)]
    /\ UNCHANGED <<index, last, exvars, inbox, outbox, events, dups, issued,
                   processed, maint, phase, peer_arg, first_time, connected,
                   wakeups, foreign, rtvars>>

\* inject_event(MdnsEvent::Discovered): the other peer enters the partial
\* view
Discovered ==
    /\ ~connected
    /\ connected' = TRUE
    /\ UNCHANGED <<index, last, exvars, sysvars, maint, phase, peer_arg,
                   first_time, peer_ev, disk, wakeups, foreign, hs_last, hs_pub,
                   got_completed, rtvars>>

\* what a peer outside the two may publish on the topic
ForeignBlobs ==
    {FileBlob("w/a", Sha256(<<4>>), 1, <<4>>),
     FileBlob("w/a", Sha256(<<5>>), 1, <<4>>),
     FileBlob("w/a", Sha256(<<4>>), 2, <<4>>)}

ForeignMessages ==
    {InitialConnCompleted(r) : r \in Replicas}
        \cup {InitialConnection(r, "X") : r \in Replicas}
        \cup {SyncFile("A", b) : b \in ForeignBlobs}

ForeignMessage(r, msg) ==
    /\ foreign < MaxForeign
    /\ foreign' = foreign + 1
    /\ net' = [net EXCEPT ![r] = Append(@, msg)]
    /\ UNCHANGED <<index, last, exvars, inbox, outbox, events, dups, issued,
                   processed, maint, phase, peer_arg, first_time, peer_ev, disk,
                   connected, wakeups, hs_last, hs_pub, got_completed, rtvars>>

NextHandshake ==
    \/ \E r \in Replicas : Wakeup(r)
    \/ \E r \in Replicas : HandshakeRecv(r)
    \/ \E r \in Replicas : InjectPeerConnectionEvent(r)
    \/ Discovered
    \/ \E r \in Replicas, msg \in ForeignMessages : ForeignMessage(r, msg)
    \/ \E r \in Replicas : WatchEvent(r, "Create", Append(WATCHED_PATH, "a"), "m1")

SpecHandshake == InitHandshake /\ [][NextHandshake]_vars

\* the loops of start_coordination run, and the transport delivers what
\* was published
SpecHandshakeFair ==
    /\ InitHandshake
    /\ [][NextHandshake]_vars
    /\ \A r \in Replicas :
          /\ WF_vars(Wakeup(r))
          /\ WF_vars(HandshakeRecv(r))
          /\ WF_vars(InjectPeerConnectionEvent(r))

(***************************************************************************)
(* File transfer.  Both peers are in their steady-state loop.  Users write *)
(* and delete the file of the watched roots; each change puts an event on  *)
(* the channel of the peer's watcher, and so does each file a peer writes  *)
(* for a response it received.  The watcher thread handles the events of   *)
(* its channel one at a time.  Two events stand for what notify reports:   *)
(* Create for a write that made the file, Modify for a write that changed  *)
(* it.  The events of index.json, which the watcher skips, are left out.   *)
(***************************************************************************)
TransferContents == {<<1>>, <<2>>}

\* the content_hash of an EntryMeta, as the string the model keeps an
\* EntryMeta as: one string per content
ContentHash(content) ==
    CASE content = <<1>> -> "m1"
      [] content = <<2>> -> "m2"
      [] OTHER -> "m0"

\* EntryMeta::from_path succeeds on a directory and on a regular file
FromPathOk(files, n) ==
    n \in DOMAIN files /\ files[n].kind \in {"file", "dir"}

EntryMetaFromPath(files, n) ==
    IF files[n].kind = "dir" THEN "dir" ELSE ContentHash(files[n].content)

\* both peers were started on a watched root that holds the file or not,
\* and cold-started their index
InitTransfer ==
    /\ \E held \in SUBSET Replicas :
          disk = [r \in Replicas |->
                    IF r \in held
                    THEN ("index.json" :> Snapshot(r)) @@ ("a" :> File(<<0>>))
                    ELSE ("index.json" :> Snapshot(r))]
    /\ index = [r \in Replicas |->
                  ColdStart(IndexNew, r,
                            WalkDir(RegularFiles(disk[r]) \ {"index.json"}))]
    /\ last = NoCall
    /\ pool = {}
    /\ todo = [r \in Replicas |-> {}]
    /\ SysIdle

\* a user writes content to the file n of r's watched root
UserWrite(r, n, content) ==
    /\ user < MaxUser
    /\ n \in DOMAIN disk[r] => disk[r][n].kind = "file"
    /\ user' = user + 1
    /\ disk' = [disk EXCEPT ![r] = (n :> File(content)) @@ @]
    /\ fsevents' = [fsevents EXCEPT ![r] =
                       Append(@, FsEvent(IF n \in DOMAIN disk[r]
                                         THEN "Modify" ELSE "Create",
                                         n, "user"))]
    /\ u_last' = UserChange(r, "Write", n,
                            {q \in Replicas : n \in DOMAIN disk[q]})
    /\ UNCHANGED <<index, last, exvars, sysvars, maint, phase, peer_arg,
                   first_time, peer_ev, connected, wakeups, foreign, hs_last,
                   hs_pub, got_completed, running, boots, requests, responses,
                   recently_written, fetches, watching, w_last, t_last>>

\* a user deletes the file n of r's watched root
UserDelete(r, n) ==
    /\ user < MaxUser
    /\ n \in DOMAIN disk[r]
    /\ disk[r][n].kind = "file"
    /\ user' = user + 1
    /\ disk' = [disk EXCEPT ![r] = [m \in DOMAIN @ \ {n} |-> @[m]]]
    /\ fsevents' = [fsevents EXCEPT ![r] = Append(@, FsEvent("Remove", n, "user"))]
    /\ u_last' = UserChange(r, "Delete", n,
                            {q \in Replicas : n \in DOMAIN disk[q]})
    /\ UNCHANGED <<index, last, exvars, sysvars, maint, phase, peer_arg,
                   first_time, peer_ev, connected, wakeups, foreign, hs_last,
                   hs_pub, got_completed, running, boots, requests, responses,
                   recently_written, fetches, watching, w_last, t_last>>

\* watch_path, the body of the loop over the watcher's channel: the event
\* is skipped when the file name of its path is index.json or is the last
\* name of an element of RECENTLY_WRITTEN, which is then removed; otherwise
\* it is translated, with the metadata from_path reads at that moment, and
\* the command goes to the index task.  The unwrap of from_path on a path
\* that is gone ends the watcher thread.
WatcherHandle(r) ==
    /\ watching[r]
    /\ fsevents[r] # <<>>
    /\ LET ev == Head(fsevents[r])
           vec == recently_written[r]
           found == {i \in 1..Len(vec) : last_name(PathNew(vec[i])) = ev.name}
           set_contains == found # {}
           pos == CHOOSE i \in found : \A j \in found : i <= j
           skipped == ev.name = "index.json" \/ set_contains
           panics == /\ ~skipped
                     /\ ev.kind \in {"Create", "Modify"}
                     /\ ~FromPathOk(disk[r], ev.name)
           sent == IF skipped \/ panics THEN <<>>
                   ELSE <<Translate(ev.kind, Append(WATCHED_PATH, ev.name),
                                    IF ev.kind = "Remove" THEN NoMeta
                                    ELSE EntryMetaFromPath(disk[r], ev.name))>>
       IN  /\ recently_written' =
                 [recently_written EXCEPT ![r] =
                     IF set_contains
                     THEN SubSeq(vec, 1, pos - 1) \o SubSeq(vec, pos + 1, Len(vec))
                     ELSE vec]
           /\ watching' = [watching EXCEPT ![r] = ~panics]
           /\ inbox' = [inbox EXCEPT ![r] = @ \o sent]
           /\ w_last' = Watched(r, ev, sent)
    /\ fsevents' = [fsevents EXCEPT ![r] = Tail(@)]
    /\ UNCHANGED <<index, last, exvars, outbox, net, events, dups, issued,
                   processed, maint, hsvars, running, boots, requests, responses,
                   user, fetches, u_last, t_last>>

\* inject_event(RequestResponseMessage::Request): the blob of the file as it
\* is now, or FileBlob::default() when it cannot be read, under the name of
\* the request, goes back as the response
HandleRequest(r) ==
    /\ requests[r] # <<>>
    /\ LET request == Head(requests[r])
           path == smart_join(WATCHED_PATH, PathNew(request.name))
           n == last_name(path)
           from_path == IF n \in DOMAIN disk[r] /\ disk[r][n].kind = "file"
                        THEN FileBlob(to_string_lossy(path),
                                      Sha256(disk[r][n].content),
                                      Len(disk[r][n].content), disk[r][n].content)
                        ELSE NoBlob
           file_blob == [from_path EXCEPT !.name = request.name]
       IN  responses' = [responses EXCEPT ![request.from] =
                            Append(@, FileResponse(file_blob, request.hash))]
    /\ requests' = [requests EXCEPT ![r] = Tail(@)]
    /\ UNCHANGED <<index, last, exvars, sysvars, maint, hsvars, running, boots,
                   fsevents, recently_written, user, fetches, watching, u_last,
                   w_last, t_last>>

\* inject_event(RequestResponseMessage::Response): write_to_disk on the
\* absolute path of the name; the watcher of the peer sees the file written
HandleResponse(r) ==
    /\ responses[r] # <<>>
    /\ fetches < MaxFetch
    /\ fetches' = fetches + 1
    /\ LET response == Head(responses[r]).blob
           base_path == smart_join(WATCHED_PATH, PathNew(response.name))
           res == write_to_disk(disk[r], base_path, response)
           n == last_name(smart_join(base_path, PathNew(response.name)))
       IN  /\ disk' = [disk EXCEPT ![r] = res.files]
           /\ fsevents' =
                 [fsevents EXCEPT ![r] =
                     IF res.result = "Ok"
                     THEN Append(@, FsEvent(IF n \in DOMAIN disk[r]
                                            THEN "Modify" ELSE "Create",
                                            n, "transfer"))
                     ELSE @]
           /\ t_last' = Fetched(r, response, Head(responses[r]).hash, disk[r],
                                res.result)
    /\ responses' = [responses EXCEPT ![r] = Tail(@)]
    /\ UNCHANGED <<index, last, exvars, sysvars, maint, phase, peer_arg,
                   first_time, peer_ev, connected, wakeups, foreign, hs_last,
                   hs_pub, got_completed, running, boots, requests,
                   recently_written, user, watching, u_last, w_last>>

NextTransfer ==
    \/ \E r \in Replicas, content \in TransferContents : UserWrite(r, "a", content)
    \/ \E r \in Replicas : UserDelete(r, "a")
    \/ \E r \in Replicas : WatcherHandle(r)
    \/ \E r \in Replicas : IndexTaskLocalOp(r)
    \/ \E r \in Replicas : IndexTaskRemoteOp(r)
    \/ \E r \in Replicas : Publish(r)
    \/ \E r \in Replicas : GossipMessage(r, FALSE)
    \/ \E r \in Replicas : HandleRequest(r)
    \/ \E r \in Replicas : HandleResponse(r)

SpecTransfer == InitTransfer /\ [][NextTransfer]_vars

(***************************************************************************)
(* Restarts.  One peer's process is started, stopped and started again on  *)
(* a watched root that holds regular files and directories; build_index    *)
(* calls load_or_init on <watched root>/index.json.  The snapshot file is  *)
(* an entry of the watched root like any other file.                       *)
(***************************************************************************)
Dir == [kind |-> "dir", content |-> <<>>]

\* the snapshot file after a write of the document doc: written tells how
\* much of the document reached the file, "all" of it, a "part" of it, or
\* "none" (the file was created or truncated and nothing more)
SnapshotFile(written, doc) ==
    [kind |-> "file", content |-> <<[written |-> written, doc |-> doc]>>]

\* watched_path + INDEX_NAME
IndexPath == Append(WATCHED_PATH, "index.json")

\* the watched roots a peer is first started on
RestartRoots ==
    UNION {[names -> {File(<<1>>), Dir}] : names \in SUBSET {"a", "w"}}

\* Path::exists of an absolute path, for a watched root with these entries
PathExists(files, abs) ==
    \/ abs # <<>> /\ IsPrefix(abs, WATCHED_PATH)
    \/ /\ Len(abs) = Len(WATCHED_PATH) + 1
       /\ IsPrefix(WATCHED_PATH, abs)
       /\ abs[Len(abs)] \in DOMAIN files

\* PathBuf::push of each key on the way to a node, onto fs_root
RECURSIVE PathJoin(_, _)
PathJoin(base, keys) ==
    IF keys = <<>> THEN base
    ELSE PathJoin(base \o PathNew(Head(keys)), Tail(keys))

\* EntryMeta.is_directory of the metadata from_path makes: true in the
\* directory branch and in the file branch
IsDirectoryFlag(meta) == TRUE

\* check_integrity that tests nothing
CheckIntegrityAlwaysOk(root, fs_root, files) == TRUE

\* check_integrity: every Entry of the tree has an existing path under
\* fs_root, which is the index's root_path
CheckIntegrity(root, fs_root, files) ==
    \A q \in {x \in DOMAIN root : root[x].tag = "Entry"} :
        PathExists(files, PathJoin(fs_root, q))

\* what WalkDir yields, filtered to regular files and directories: the
\* watched root first, then its entries in any order
WalkDirs(files) ==
    LET walked == {n \in DOMAIN files : files[n].kind \in {"file", "dir"}}
        orders == {o \in [1..Cardinality(walked) -> walked] :
                      \A i, j \in DOMAIN o : o[i] = o[j] => i = j}
    IN  {<<[path |-> WATCHED_PATH, meta |-> "dir"]>> \o
            [i \in DOMAIN o |->
                [path |-> Append(WATCHED_PATH, o[i]),
                 meta |-> IF files[o[i]].kind = "dir" THEN "dir" ELSE "m0"]] :
         o \in orders}

\* the index a complete snapshot file holds, IndexNew for any other file
SavedIndex(files) ==
    IF "index.json" \in DOMAIN files /\ files["index.json"].content[1].written = "all"
    THEN Deserialize(files["index.json"].content[1].doc)
    ELSE IndexNew

\* load_or_init(self, IndexPath) with the cold start walking entries: the
\* result, the index, whether it was cold-started, and the files afterwards
LoadOrInit(self, files, entries) ==
    LET cold == ColdStart(IndexNew, self, entries)
        started == [ok |-> TRUE, idx |-> cold, cold |-> TRUE,
                    files |-> ("index.json" :> SnapshotFile("all", Serialize(cold)))
                                  @@ files]
    IN  IF "index.json" \notin DOMAIN files THEN started
        ELSE IF files["index.json"].content[1].written # "all"
        THEN [ok |-> FALSE, idx |-> IndexNew, cold |-> FALSE, files |-> files]
        ELSE LET idx == Rebuild(SavedIndex(files))
             IN  IF CheckIntegrity(idx.root, IndexPath, files)
                 THEN [ok |-> TRUE, idx |-> idx, cold |-> FALSE, files |-> files]
                 ELSE started

InitRestart ==
    /\ \E files \in RestartRoots : disk = [r \in Replicas |-> files]
    /\ index = [r \in Replicas |-> IndexNew]
    /\ running = [r \in Replicas |-> FALSE]
    /\ boots = 0
    /\ fsevents = [r \in Replicas |-> <<>>]
    /\ requests = [r \in Replicas |-> <<>>]
    /\ responses = [r \in Replicas |-> <<>>]
    /\ recently_written = [r \in Replicas |-> <<>>]
    /\ user = 0
    /\ fetches = 0
    /\ watching = [r \in Replicas |-> TRUE]
    /\ u_last = NoUserChange
    /\ w_last = NoWatched
    /\ t_last = NoFetched
    /\ last = NoCall
    /\ pool = {}
    /\ todo = [r \in Replicas |-> {}]
    /\ inbox = [r \in Replicas |-> <<>>]
    /\ outbox = [r \in Replicas |-> <<>>]
    /\ net = [r \in Replicas |-> <<>>]
    /\ events = 0
    /\ dups = 0
    /\ issued = <<>>
    /\ processed = [r \in Replicas |-> {}]
    /\ maint = 0
    /\ HsIdle

\* build_index: load_or_init, unwrapped.  On an error the process ends.
Boot(r, entries) ==
    /\ ~running[r]
    /\ boots < MaxBoots
    /\ boots' = boots + 1
    /\ LET res == LoadOrInit(r, disk[r], entries)
       IN  /\ index' = [index EXCEPT ![r] = res.idx]
           /\ disk' = [disk EXCEPT ![r] = res.files]
           /\ running' = [running EXCEPT ![r] = res.ok]
           /\ last' = Call(r, IF res.cold THEN "cold_start" ELSE "load_or_init",
                           NoOp, res.ok, SavedIndex(disk[r]), FALSE, NoOp)
    /\ UNCHANGED <<exvars, sysvars, maint, phase, peer_arg, first_time, peer_ev,
                   connected, wakeups, foreign, hs_last, hs_pub, got_completed,
                   fsevents, requests, responses, recently_written, user,
                   fetches, watching, u_last, w_last, t_last>>

\* the process ends while the save_to_disk of a cold start is in
\* std::fs::write, which truncates the file and then writes the document
CrashInSave(r, entries, written) ==
    /\ ~running[r]
    /\ boots < MaxBoots
    /\ boots' = boots + 1
    /\ LET res == LoadOrInit(r, disk[r], entries)
       IN  /\ res.cold
           /\ disk' = [disk EXCEPT ![r] =
                          ("index.json" :> SnapshotFile(written, Serialize(res.idx)))
                              @@ disk[r]]
           /\ last' = Call(r, "crash", NoOp, FALSE, SavedIndex(disk[r]), FALSE, NoOp)
    /\ UNCHANGED <<index, exvars, sysvars, maint, phase, peer_arg, first_time,
                   peer_ev, connected, wakeups, foreign, hs_last, hs_pub,
                   got_completed, running, fsevents, requests, responses,
                   recently_written, user, fetches, watching, u_last, w_last, t_last>>

\* the process is stopped
Stop(r) ==
    /\ running[r]
    /\ running' = [running EXCEPT ![r] = FALSE]
    /\ UNCHANGED <<index, last, exvars, sysvars, maint, hsvars, boots, fsevents,
                   requests, responses, recently_written, user, fetches, watching, u_last, w_last, t_last>>

NextRestart ==
    \/ \E entries \in WalkDirs(disk["A"]) : Boot("A", entries)
    \/ \E entries \in WalkDirs(disk["A"]), written \in {"none", "part"} :
            CrashInSave("A", entries, written)
    \/ Stop("A")

SpecRestart == InitRestart /\ [][NextRestart]_vars


(***************************************************************************)
(* C16: a peer that handles InitialConnection(target, source) with target  *)
(* its own id publishes InitialConnCompleted carrying source, the peer     *)
(* that asked.                                                             *)
(***************************************************************************)
C16_CompletedCarriesSource ==
    (hs_last.msg.kind = "InitialConnection" /\ hs_last.msg.target = hs_last.r) =>
        InitialConnCompleted(hs_last.msg.source) \in Range(hs_last.out)

(***************************************************************************)
(* C17: from a state where the bootstrap is in the joiner's partial view   *)
(* and the joiner has published nothing yet, the joiner eventually leaves  *)
(* the handshake loop, and it then holds every regular file of the         *)
(* bootstrap with the bootstrap's content.                                 *)
(***************************************************************************)
C17_JoinerReachesSteadyState ==
    (connected /\ peer_arg["B"] = "A" /\ phase["B"] = "handshake"
        /\ hs_pub["B"] = <<>>)
      ~> (/\ phase["B"] = "steady"
          /\ \A n \in RegularFiles(disk["A"]) :
                n \in DOMAIN disk["B"] /\ disk["B"][n] = disk["A"][n])

(***************************************************************************)
(* C18: a joiner still in the handshake loop has asked once per periodic   *)
(* wakeup: every wakeup so far has its InitialConnection(bootstrap, self), *)
(* published or waiting in the loop's channel to be published.             *)
(***************************************************************************)
C18_AsksAgainOnEveryWakeup ==
    \A r \in Replicas :
        phase[r] = "handshake" =>
            Len(SelectSeq(hs_pub[r] \o peer_ev[r],
                          LAMBDA m : m = InitialConnection(peer_arg[r], r)))
                = wakeups[r]

(***************************************************************************)
(* C19: a peer that handles an InitialConnection whose target is its own   *)
(* id publishes one SyncFile(source, blob) for each regular file under its *)
(* watched root, each file once and nothing else, and then the completion  *)
(* message as the last message; a peer that is not the target publishes    *)
(* nothing; a peer that is not the target of a SyncFile writes nothing.    *)
(***************************************************************************)
C19_OneSyncFilePerFileThenCompleted ==
    LET r == hs_last.r
        msg == hs_last.msg
        out == hs_last.out
        regular == RegularFiles(hs_last.before)
    IN  /\ (msg.kind = "InitialConnection" /\ msg.target = r) =>
              /\ Len(out) = Cardinality(regular) + 1
              /\ \A n \in regular :
                    \E i \in 1..(Len(out) - 1) :
                        out[i] = SyncFile(msg.source, BlobOf(hs_last.before, n))
              /\ out[Len(out)].kind = "InitialConnCompleted"
        /\ (msg.kind = "InitialConnection" /\ msg.target # r) => out = <<>>
        /\ (msg.kind = "SyncFile" /\ msg.target # r) => disk[r] = hs_last.before

\* the bootstrap has answered a joiner's request while holding two regular
\* files, and the joiner has ignored a SyncFile addressed to another peer
C19_Witness ==
    /\ hs_last.r = "A"
    /\ hs_last.msg = InitialConnection("A", "B")
    /\ Len(hs_last.out) = 4

C19_WitnessNotTarget ==
    /\ hs_last.r = "B"
    /\ hs_last.msg.kind = "SyncFile"
    /\ hs_last.msg.target = "A"

(***************************************************************************)
(* C20: a peer started with a peer id has its watcher running, and so has  *)
(* sent a command of its watcher to its index task, only if it has         *)
(* received an InitialConnCompleted addressed to itself; a peer started    *)
(* with an empty peer id runs its watcher from the start.                  *)
(***************************************************************************)
C20_WatcherAfterCompletion ==
    \A r \in Replicas :
        /\ (phase[r] = "steady" \/ inbox[r] # <<>>) =>
              (peer_arg[r] = "" \/ got_completed[r])
        /\ peer_arg[r] = "" => phase[r] = "steady"

\* a joiner whose watcher has sent a command
C20_Witness ==
    /\ peer_arg["B"] = "A"
    /\ got_completed["B"]
    /\ phase["B"] = "steady"
    /\ inbox["B"] # <<>>

(***************************************************************************)
(* C28: for an index reached by apply_local_op and apply_remote calls,     *)
(* serializing it and reading the document back gives an index with equal  *)
(* root, vv and op_log, and the applied set rebuilt from that op_log is    *)
(* the applied set the index had.                                          *)
(***************************************************************************)
C28_RoundTripKeepsApplied ==
    last.kind = "load_or_init" =>
        /\ Deserialize(Serialize(last.pre)).root = last.pre.root
        /\ Deserialize(Serialize(last.pre)).vv = last.pre.vv
        /\ Deserialize(Serialize(last.pre)).op_log = last.pre.op_log
        /\ index[last.r].applied = last.pre.applied

(***************************************************************************)
(* C24: when load_or_init runs on a complete snapshot of an index with a   *)
(* non-empty op_log, the watched directory being as the save left it, the  *)
(* index returned has the op_log and root of the saved one, applied is the *)
(* set of ids of that op_log, and apply_remote of any operation of it      *)
(* returns false.                                                          *)
(***************************************************************************)
C24_ReloadGivesSavedIndex ==
    (last.kind \in {"load_or_init", "cold_start"} /\ last.pre.op_log # <<>>) =>
        /\ last.ok
        /\ index[last.r].op_log = last.pre.op_log
        /\ index[last.r].root = last.pre.root
        /\ index[last.r].applied = {op.id : op \in Range(last.pre.op_log)}
        /\ \A op \in Range(last.pre.op_log) : ~ApplyRemote(index[last.r], op).ok

(***************************************************************************)
(* C25: load_or_init returns a usable index whenever the snapshot file     *)
(* exists but cannot be used, whether it fails the integrity check or its  *)
(* bytes do not deserialize: it cold-starts, it does not return an error.  *)
(***************************************************************************)
C25_UnusableSnapshotColdStarts ==
    last.kind \in {"load_or_init", "cold_start"} => last.ok

\* an Entry whose is_directory flag disagrees with what its path is on disk;
\* the path of an Entry is the cursor it was made under
KindMismatch(root, files) ==
    \E q \in DOMAIN root :
        /\ root[q].tag = "Entry"
        /\ LET abs == <<"/", "home">> \o SubSeq(q, 1, Len(q) - 1)
           IN  /\ PathExists(files, abs)
               /\ IsDirectoryFlag(root[q].meta) #
                     (\/ abs = WATCHED_PATH
                      \/ files[abs[Len(abs)]].kind = "dir")

C27_ColdStartCoversTree ==
    (last.kind = "cold_start" /\ boots = 1) =>
        LET idx == index[last.r]
            names == DOMAIN disk[last.r] \ {"index.json"}
            rel == <<last_name(WATCHED_PATH)>>
        IN  /\ Len(idx.op_log) = Cardinality(names) + 1
            /\ \A op \in Range(idx.op_log) : op.id \in idx.applied
            /\ \A n \in names :
                  /\ <<rel[1], n, n>> \in DOMAIN idx.root
                  /\ idx.root[<<rel[1], n, n>>].tag = "Entry"
            /\ Cardinality({q \in DOMAIN idx.root : idx.root[q].tag = "Entry"})
                  = Cardinality(names) + 1

(***************************************************************************)
(* C29: whatever happens during save_to_disk, the snapshot file holds a    *)
(* complete document, the previous one or the new one: it is never empty   *)
(* and never partially written.                                            *)
(***************************************************************************)
C29_SnapshotAlwaysComplete ==
    \A r \in Replicas :
        "index.json" \in DOMAIN disk[r] =>
            disk[r]["index.json"].content[1].written = "all"

\* C30: write_to_disk creates or changes the target file only when the hash
\* recomputed over the content equals the checksum and the length of the
\* content equals the size; otherwise it returns an error and leaves the
\* files as they were; a file it has written holds the blob's content, whose
\* Sha256 is the blob's checksum
C30_WriteOnlyVerifiedBlob ==
    (hs_last.msg.kind = "SyncFile" /\ hs_last.msg.target = hs_last.r) =>
        LET blob == hs_last.msg.blob
            verified == /\ Sha256(blob.content) = blob.checksum
                        /\ Len(blob.content) = blob.size
            before == hs_last.before
            after == disk[hs_last.r]
            changed == {n \in DOMAIN after :
                           n \notin DOMAIN before \/ after[n] # before[n]}
        IN  /\ DOMAIN before \subseteq DOMAIN after
            /\ changed # {} => verified
            /\ ~verified => hs_last.result = "Err" /\ after = before
            /\ verified => hs_last.result = "Ok"
            /\ \A n \in changed :
                  /\ after[n] = File(blob.content)
                  /\ Sha256(after[n].content) = blob.checksum
            /\ hs_last.result = "Ok" =>
                  \E n \in DOMAIN after : after[n] = File(blob.content)

\* a peer has written a verified blob that changed its files
C30_Witness ==
    /\ hs_last.msg.kind = "SyncFile"
    /\ hs_last.msg.target = hs_last.r
    /\ hs_last.result = "Ok"
    /\ disk[hs_last.r] # hs_last.before

(***************************************************************************)
(* C21: the event of a file that the peer itself wrote for a file response *)
(* is skipped by the watcher: no command goes to the index task for it.    *)
(***************************************************************************)
C21_TransferWriteMakesNoOp ==
    w_last.event.origin = "transfer" => w_last.sent = <<>>

\* the tree holds an Entry under the name n or under the key the watcher
\* makes of it
HasEntryFor(root, n) ==
    \E q \in DOMAIN root :
        /\ root[q].tag = "Entry"
        /\ q # <<>>
        /\ last_name(q) \in
              {n, to_string_lossy(compute_file_relative_path(Append(WATCHED_PATH, n)))}

\* every channel is empty and no message is on its way: nothing happens
\* until a user changes a file
Quiet ==
    \A r \in Replicas :
        /\ fsevents[r] = <<>>
        /\ inbox[r] = <<>>
        /\ outbox[r] = <<>>
        /\ net[r] = <<>>
        /\ requests[r] = <<>>
        /\ responses[r] = <<>>

(***************************************************************************)
(* C22: when the last change a user made is the deletion on A of a file    *)
(* that A and B held, and every event, command and message that followed   *)
(* has been handled and delivered, B's watched root does not hold the file *)
(* and B's index holds no Entry for it.  From such a state nothing changes *)
(* unless a user acts, so it is the state "eventually" speaks of.          *)
(***************************************************************************)
C22_DeleteReachesPeer ==
    (u_last = UserChange("A", "Delete", "a", Replicas) /\ Quiet) =>
        /\ "a" \notin DOMAIN disk["B"]
        /\ ~HasEntryFor(index["B"].root, "a")

(***************************************************************************)
(* C23: the bytes a peer writes for a file response have the content hash  *)
(* that the operation which made it ask carries in its EntryMeta.          *)
(***************************************************************************)
C23_FetchedBytesMatchOp ==
    t_last.result = "Ok" => ContentHash(t_last.blob.content) = t_last.hash

(***************************************************************************)
(* C31: after a single creation of the file by a user on A, the peers      *)
(* exchange finitely many operations and file requests.  The exchange      *)
(* ends on its own: it is never the case that the peers have handled as    *)
(* many file responses as the model lets them and one more response waits. *)
(***************************************************************************)
C31_SingleCreateExchangeEnds ==
    (user = 1 /\ u_last = UserChange("A", "Write", "a", {})) =>
        ~(fetches = MaxFetch /\ \E r \in Replicas : responses[r] # <<>>)

(***************************************************************************)
(* C32: an apply_remote that returns false leaves the tree as it was       *)
(* before the call, without a Map made while walking the cursor, and       *)
(* leaves applied as it was.                                               *)
(***************************************************************************)
C32_FailedApplyChangesNothing ==
    (last.kind = "apply_remote" /\ ~last.ok) =>
        /\ index[last.r].root = last.pre.root
        /\ index[last.r].applied = last.pre.applied

\* where the cold start puts the Entry of the file n of the watched root:
\* under the cursor made of the components of its relative path, at the
\* key that is its file name
ColdStartPath(n) ==
    Append(compute_file_relative_path(Append(WATCHED_PATH, n)), n)

(***************************************************************************)
(* C33: for a file whose Entry a cold start installed, the Edit or Delete  *)
(* command the watcher sends for a later change names the cursor and key   *)
(* of that Entry, so that the Edit replaces the Entry and the Delete puts  *)
(* a Tombstone in its place.                                               *)
(***************************************************************************)
C33_ChangeHitsColdStartEntry ==
    (/\ last.kind = "LocalOp"
     /\ last.op.mutation.kind \in {"Edit", "Delete"}
     /\ ColdStartPath("a") \in DOMAIN last.pre.root
     /\ last.pre.root[ColdStartPath("a")].tag = "Entry") =>
        /\ Append(last.op.cursor, last.op.mutation.key) = ColdStartPath("a")
        /\ last.op.id \in index[last.r].applied
        /\ index[last.r].root[ColdStartPath("a")] =
              (IF last.op.mutation.kind = "Edit"
               THEN last.op.mutation.value ELSE Tombstone)

(***************************************************************************)
(* C34: whatever the users do to the files and whenever the watcher takes  *)
(* the events, the watcher thread keeps running.                           *)
(***************************************************************************)
C34_WatcherKeepsRunning ==
    \A r \in Replicas : watching[r]

(***************************************************************************)
(* C35: no peer publishes a SyncFile whose blob is the index snapshot      *)
(* index.json, and the snapshot under a peer's watched root is the one     *)
(* that peer's own index task wrote.                                       *)
(***************************************************************************)
C35_SnapshotNeverSynced ==
    \A r \in Replicas :
        /\ \A i \in 1..Len(hs_pub[r]) :
              hs_pub[r][i].kind = "SyncFile" =>
                  last_name(PathNew(hs_pub[r][i].blob.name)) # "index.json"
        /\ disk[r]["index.json"] = Snapshot(r)

(***************************************************************************)
(* C36: an Edit that reaches JsonNode::apply with its deps satisfied and a *)
(* Map as target fails when the Map has no child at the key and when the   *)
(* child is a Tombstone: it returns false, the child is as before and the  *)
(* id is not added to applied.  In every other case it returns true, the   *)
(* child is the value of the Edit and the id is in applied.                *)
(***************************************************************************)
C36_EditNeedsLiveChild ==
    (/\ last.kind = "apply_remote"
     /\ last.op.mutation.kind = "Edit"
     /\ last.op.id \notin last.pre.applied
     /\ last.op.deps \subseteq last.pre.applied) =>
        LET child == Append(last.op.cursor, last.op.mutation.key)
            before == last.pre.root
            after == index[last.r].root
            live == child \in DOMAIN before /\ before[child].tag # "Tombstone"
        IN  /\ last.ok = live
            /\ live =>
                  /\ after[child] = last.op.mutation.value
                  /\ last.op.id \in index[last.r].applied
            /\ ~live =>
                  /\ last.op.id \notin index[last.r].applied
                  /\ (child \in DOMAIN after) = (child \in DOMAIN before)
                  /\ child \in DOMAIN before => after[child] = before[child]

\* an Edit has reached a Map whose child at the key is a Tombstone
C36_Witness ==
    /\ last.kind = "apply_remote"
    /\ last.op.mutation.kind = "Edit"
    /\ last.op.id \notin last.pre.applied
    /\ last.op.deps \subseteq last.pre.applied
    /\ Append(last.op.cursor, last.op.mutation.key) \in DOMAIN last.pre.root
    /\ last.pre.root[Append(last.op.cursor, last.op.mutation.key)].tag = "Tombstone"
    /\ ~last.ok

(***************************************************************************)
(* C37: a Delete that reaches JsonNode::apply with its deps satisfied, for *)
(* a key the target Map does not hold, returns true, puts the id into      *)
(* applied and leaves the tree as it was.                                  *)
(***************************************************************************)
C37_DeleteOfAbsentKeyIsNoOp ==
    (/\ last.kind = "apply_remote"
     /\ last.op.mutation.kind = "Delete"
     /\ last.op.id \notin last.pre.applied
     /\ last.op.deps \subseteq last.pre.applied
     /\ last.op.cursor \in DOMAIN last.pre.root
     /\ last.pre.root[last.op.cursor].tag = "Map"
     /\ Append(last.op.cursor, last.op.mutation.key) \notin DOMAIN last.pre.root) =>
        /\ last.ok
        /\ last.op.id \in index[last.r].applied
        /\ index[last.r].root = last.pre.root

(***************************************************************************)
(* Two orders of two operations.  Both indexes start from the same index,  *)
(* one that CRDTIndex::new and at most two apply_remote calls produce, and *)
(* each applies the two operations of the pool with apply_remote: A the    *)
(* operation with the smaller id first, B the one with the greater id      *)
(* first.  The ids are new to the index, so apply_remote returns what      *)
(* JsonNode::apply returns, and an operation's id is in applied afterwards *)
(* exactly when its call returned true.                                    *)
(***************************************************************************)
CursorSegments == <<"d", "e", "f">>

CommuteCursors == {SubSeq(CursorSegments, 1, n) : n \in 0..MaxDepth}

CommuteKeys == {"x", "d"}

CommuteMutations(id) ==
    {Mutation("New", k, Entry(MetaOf(id))) : k \in CommuteKeys}
        \cup {Mutation("Edit", k, Entry(MetaOf(id))) : k \in CommuteKeys}
        \cup {Mutation("Delete", k, Tombstone) : k \in CommuteKeys}

\* the operations that may have built the tree the two orders start from
SetupNew ==
    {Operation(LamportTimestamp(1, "A"), {}, c, Mutation("New", k, Entry("m0"))) :
        c \in CommuteCursors, k \in CommuteKeys}

SetupDelete ==
    {Operation(LamportTimestamp(1, "B"), {}, c, Mutation("Delete", "x", Tombstone)) :
        c \in CommuteCursors}

CommuteStarts ==
    {IndexNew}
        \cup {ApplyRemote(IndexNew, a).idx : a \in SetupNew}
        \cup {ApplyRemote(ApplyRemote(IndexNew, a).idx, b).idx :
                 a \in SetupNew, b \in SetupDelete}

FirstId == LamportTimestamp(2, "A")
SecondId == LamportTimestamp(2, "B")

\* the path of the child an operation names: its cursor, then its key
OpPath(op) == Append(op.cursor, op.mutation.key)

InitCommute ==
    /\ \E start \in CommuteStarts :
          /\ index = [r \in Replicas |-> start]
          /\ \E c1, c2 \in CommuteCursors :
             \E m1 \in CommuteMutations(FirstId) :
             \E m2 \in CommuteMutations(SecondId) :
             \E d2 \in {{}, start.applied, {FirstId}} :
                pool = {Operation(FirstId, start.applied, c1, m1),
                        Operation(SecondId, d2, c2, m2)}
    /\ last = NoCall
    /\ todo = [r \in Replicas |-> pool]
    /\ disk = [r \in Replicas |-> <<>>]
    /\ SysIdle

\* the operation r takes next: A in the order of the ids, B against it
NextInOrder(r, op) ==
    /\ op \in todo[r]
    /\ \A o \in todo[r] \ {op} :
          IF r = "A" THEN TsLess(op.id, o.id) ELSE TsLess(o.id, op.id)

CommuteApply(r, op) ==
    /\ NextInOrder(r, op)
    /\ LET res == ApplyRemote(index[r], op)
       IN  index' = [index EXCEPT ![r] = res.idx]
    /\ todo' = [todo EXCEPT ![r] = todo[r] \ {op}]
    /\ UNCHANGED <<pool, last, sysvars, auxvars>>

NextCommute == \E r \in Replicas : \E op \in pool : CommuteApply(r, op)

SpecCommute == InitCommute /\ [][NextCommute]_vars

BothOrdersDone == \A r \in Replicas : todo[r] = {}

\* neither operation's cursor-plus-key path is a prefix of the other's
DisjointPaths ==
    \A o1, o2 \in pool :
        o1 # o2 => ~IsPrefix(OpPath(o1), OpPath(o2))

\* the deps of both operations were in applied before either was applied
DepsSatisfiedAtStart == \A o1, o2 \in pool : o1.id \notin o2.deps

(***************************************************************************)
(* C38: two operations whose deps are satisfied and whose cursor-plus-key  *)
(* paths are not prefixes of one another give, in either order, the same   *)
(* tree and the same result for each operation.                            *)
(***************************************************************************)
C38_DisjointOpsCommute ==
    (BothOrdersDone /\ DisjointPaths /\ DepsSatisfiedAtStart) =>
        /\ index["A"].root = index["B"].root
        /\ \A o \in pool : o.id \in index["A"].applied <=> o.id \in index["B"].applied

\* both orders are done for two operations under the same directory, of
\* which one returned true and the other, an Edit, returned false
C38_Witness ==
    /\ BothOrdersDone /\ DisjointPaths /\ DepsSatisfiedAtStart
    /\ \E o1, o2 \in pool :
          /\ o1.cursor = <<"d">> /\ o2.cursor = <<"d", "e">>
          /\ o1.id \in index["A"].applied
          /\ o2.mutation.kind = "Edit" /\ o2.id \notin index["A"].applied

\* the operations _compact took out of the op_log of the index it was
\* called on
Compacted ==
    {last.pre.op_log[i] : i \in 1..Len(last.pre.op_log)}
        \ {index[last.r].op_log[i] : i \in 1..Len(index[last.r].op_log)}

(***************************************************************************)
(* C39: after _compact(retain_after) the op_log holds, in their previous   *)
(* order, exactly the previous operations whose id retain_after does not   *)
(* dominate, no Map of the tree has a Tombstone child, applied is as it    *)
(* was, and apply_remote of an operation taken out of the log returns      *)
(* false.                                                                  *)
(***************************************************************************)
C39_CompactTruncatesLogOnly ==
    (last.kind = "_compact") =>
        /\ \E q \in Replicas :
              index[last.r].op_log =
                  SelectSeq(last.pre.op_log,
                            LAMBDA op : ~VvDominates(index[q].vv, op.id))
        /\ \A p \in DOMAIN index[last.r].root :
              index[last.r].root[p].tag # "Tombstone"
        /\ index[last.r].applied = last.pre.applied
        /\ \A op \in Compacted : ~ApplyRemote(index[last.r], op).ok

(***************************************************************************)
(* compress called on the tree of an index that has applied both           *)
(* operations of the pool, as the test json_crdt_operations_and_consistency*)
(* calls it after its operations.                                          *)
(***************************************************************************)
CompressCall(r) ==
    /\ todo[r] = {}
    /\ maint < MaxMaint
    /\ maint' = maint + 1
    /\ index' = [index EXCEPT ![r].root = Compress(index[r].root)]
    /\ last' = Call(r, "compress", NoOp, TRUE, index[r], FALSE, NoOp)
    /\ UNCHANGED <<exvars, sysvars, hsvars, rtvars>>

NextCompress ==
    \/ NextCommute
    \/ \E r \in Replicas : CompressCall(r)

SpecCompress == InitCommute /\ [][NextCompress]_vars

\* the nodes of a tree that are not Tombstones
LiveNodes(t) == {p \in DOMAIN t : t[p].tag # "Tombstone"}

====
